---- MODULE Spec2Model ----
(***************************************************************************)
(* A model of src/src/paillier_core.py: the PaillierCore object (its four  *)
(* fields), key generation (prime generation with the Miller-Rabin test,   *)
(* lcm, extended gcd, modular inverse) and the cipher operations encrypt,  *)
(* decrypt, homomorphic_add, homomorphic_multiply_constant,                *)
(* get_public_key and get_key_info.                                        *)
(*                                                                         *)
(* Python integers are unbounded and TLC's are 32 bits wide.  The model    *)
(* keeps every comparison the code makes against the requested bit length  *)
(* (512, parity) and represents a prime of b bits by a prime of            *)
(* PrimeBits(b) bits, so that n*n stays below 2^31.  All products modulo   *)
(* n*n go through MulMod, which never forms a value above twice the        *)
(* modulus.                                                                *)
(*                                                                         *)
(* Spec follows one caller of one object.  SpecThreads follows two threads *)
(* that call the cipher operations of one shared object step by step.      *)
(* SpecHelpers follows one call of a helper method (_extended_gcd,         *)
(* _modular_inverse, _miller_rabin_test, _generate_prime, and the key      *)
(* arithmetic of _generate_keypair) on arguments of                        *)
(* its own; FairHelpers adds that a running _generate_prime keeps running. *)
(* FairEncrypt follows key generation and encrypt under fair randomness.   *)
(***************************************************************************)
EXTENDS Integers, Sequences, FiniteSets, TLC

VARIABLES
    kpc,          \* position of the construction: "new", "rejected", "gen_p",
                  \* "gen_q", "have_pq", "ready" or "failed"
    entry,        \* the entry point the construction was requested through
    bit_length,   \* self.bit_length
    public_key,   \* self.public_key
    private_key,  \* self.private_key
    n_squared,    \* self.n_squared
    p, q,         \* the locals p and q of _generate_keypair
    ppc,          \* position inside _generate_prime: "idle", "draw" or "mr"
    candidate,    \* the local candidate of _generate_prime
    mr_round,     \* rounds of _miller_rabin_test completed for candidate
    gen_err,      \* the error the construction ended with
    epc,          \* position inside encrypt: "idle" or "draw"
    plaintext,    \* the argument of the encrypt call in progress
    ret,          \* the outcome of the last call: see Outcome
    acc,          \* the ciphertext the caller accumulates (result_enc)
    agg,          \* what acc stands for: see NoAggregate
    fn,           \* the frame of a helper method called on its own: see NoCall
    calls,        \* per thread, the call it is making on the shared object
    tmp           \* per frame, the local variables of a call in progress

vars == <<kpc, entry, bit_length, public_key, private_key, n_squared, p, q,
          ppc, candidate, mr_round, gen_err, epc, plaintext, ret, acc, agg,
          fn, calls, tmp>>

keyVars == <<bit_length, public_key, private_key, n_squared>>
genVars == <<kpc, entry, p, q, ppc, candidate, mr_round, gen_err>>
callVars == <<epc, plaintext, ret, acc, agg>>
threadVars == <<calls, tmp>>

-----------------------------------------------------------------------------
(* Bounds of the model *)

\* A prime of MinBitLength \div 2 bits is represented by one of this many bits.
ScaledHalfWidth == 3

\* random.randrange(1, n) is drawn from 1 .. Min(n - 1, MaxDraw).
MaxDraw == 5

\* Ciphertexts folded into acc, the first one included, and scalings of it.
MaxSteps == 3

\* _extended_gcd is called on 0 .. MaxArg, _modular_inverse on a in
\* -MaxArg .. MaxArg and m in 1 .. MaxArg.
MaxArg == 21

\* _miller_rabin_test is called on -1 .. MaxTested with 0 .. MaxRounds rounds.
MaxTested == 50
MaxRounds == 3

\* _generate_prime is called for 2 .. MaxPrimeWidth bits.
MaxPrimeWidth == 5

\* _generate_keypair is followed on its own from odd values 3 .. MaxFactor.
MaxFactor == 13

-----------------------------------------------------------------------------
(* Optional values: Python's None and a present value *)

None == <<>>
Some(v) == <<v>>
Get(o) == o[1]

NoError == [msg |-> "", args |-> <<>>]
Error(msg, args) == [msg |-> msg, args |-> args]

-----------------------------------------------------------------------------
(* Integer arithmetic *)

Min(a, b) == IF a < b THEN a ELSE b
Abs(a) == IF a < 0 THEN -a ELSE a

RECURSIVE Pow2(_)
Pow2(k) == IF k <= 0 THEN 1 ELSE 2 * Pow2(k - 1)

\* int.bit_length()
RECURSIVE BitLength(_)
BitLength(x) == IF x = 0 THEN 0 ELSE 1 + BitLength(Abs(x) \div 2)

\* math.gcd
RECURSIVE Gcd(_, _)
Gcd(a, b) == IF b = 0 THEN Abs(a) ELSE Gcd(b, a % Abs(b))

\* (a * b) % m for m > 0, exact: no intermediate value exceeds 2 * m.
RECURSIVE MulModNat(_, _, _)
MulModNat(a, b, m) ==
    IF b = 0 THEN 0
    ELSE LET h == MulModNat(a, b \div 2, m)
             d == (h + h) % m
         IN  IF (b % 2) = 1 THEN (d + a) % m ELSE d

MulMod(a, b, m) ==
    LET x == a % m
        y == b % m
    IN  IF x < 32768 /\ y < 32768 THEN (x * y) % m ELSE MulModNat(x, y, m)

\* The builtin pow(base, exponent, modulus) for exponent >= 0.
RECURSIVE ModPow(_, _, _)
ModPow(base, exponent, modulus) ==
    IF exponent = 0 THEN 1 % modulus
    ELSE LET h == ModPow(base, exponent \div 2, modulus)
             s == MulMod(h, h, modulus)
         IN  IF exponent % 2 = 1 THEN MulMod(s, base, modulus) ELSE s

\* ComputeLcm without the division by the gcd
ComputeLcmProduct(a, b) == Abs(a * b)

\* ComputeLcm returning p - 1 alone
ComputeLcmFirst(a, b) == Abs(a)

\* _compute_lcm
ComputeLcm(a, b) == Abs(a * b) \div Gcd(a, b)

\* ExtendedGcd with the coefficients of the base case exchanged
RECURSIVE ExtendedGcdBaseSwapped(_, _)
ExtendedGcdBaseSwapped(a, b) ==
    IF a = 0 THEN <<b, 1, 0>>
    ELSE LET rec == ExtendedGcdBaseSwapped(b % a, a)
             x == rec[3] - (b \div a) * rec[2]
             y == rec[2]
         IN  <<rec[1], x, y>>

\* _extended_gcd: <<gcd, x, y>>
RECURSIVE ExtendedGcd(_, _)
ExtendedGcd(a, b) ==
    IF a = 0 THEN <<b, 0, 1>>
    ELSE LET rec == ExtendedGcd(b % a, a)
             x == rec[3] - (b \div a) * rec[2]
             y == rec[2]
         IN  <<rec[1], x, y>>

\* The number of frames of _extended_gcd on the stack at its deepest: the
\* call itself and, through line 188, those of the call it makes.
RECURSIVE ExtendedGcdDepth(_, _)
ExtendedGcdDepth(a, b) ==
    IF a = 0 THEN 1 ELSE 1 + ExtendedGcdDepth(b % a, a)

\* ModularInverse returning the coefficient of m instead of that of a
ModularInverseOfModulus(a, m) ==
    LET rec == ExtendedGcd(a % m, m)
    IN  IF rec[1] # 1
        THEN [raised |-> TRUE,
              err |-> Error("Modular inverse dari {a} mod {m} tidak ada (gcd = {gcd})",
                            <<a, m, rec[1]>>),
              val |-> 0]
        ELSE [raised |-> FALSE, err |-> NoError, val |-> ((rec[3] % m) + m) % m]

\* ModularInverse returning the coefficient as _extended_gcd gave it, not
\* brought into 0 .. m - 1
ModularInverseUnreduced(a, m) ==
    LET rec == ExtendedGcd(a % m, m)
    IN  IF rec[1] # 1
        THEN [raised |-> TRUE,
              err |-> Error("Modular inverse dari {a} mod {m} tidak ada (gcd = {gcd})",
                            <<a, m, rec[1]>>),
              val |-> 0]
        ELSE [raised |-> FALSE, err |-> NoError, val |-> rec[2]]

\* _modular_inverse: [raised, err, val]
ModularInverse(a, m) ==
    LET rec == ExtendedGcd(a % m, m)
    IN  IF rec[1] # 1
        THEN [raised |-> TRUE,
              err |-> Error("Modular inverse dari {a} mod {m} tidak ada (gcd = {gcd})",
                            <<a, m, rec[1]>>),
              val |-> 0]
        ELSE [raised |-> FALSE, err |-> NoError, val |-> ((rec[2] % m) + m) % m]

-----------------------------------------------------------------------------
(* Miller-Rabin *)

MillerRabinRounds == 10

\* n - 1 = d * 2^r with d odd
RECURSIVE Decompose(_, _)
Decompose(d, r) == IF d % 2 = 0 THEN Decompose(d \div 2, r + 1) ELSE [d |-> d, r |-> r]

\* The squaring loop of one round: TRUE when n - 1 is met within `left` squarings.
RECURSIVE SquaringReaches(_, _, _)
SquaringReaches(x, left, n) ==
    IF left = 0 THEN FALSE
    ELSE LET y == ModPow(x, 2, n)
         IN  IF y = n - 1 THEN TRUE ELSE SquaringReaches(y, left - 1, n)

\* WitnessPasses without the test x == n - 1 before the squarings
WitnessPassesOneOnly(n, a) ==
    LET dr == Decompose(n - 1, 0)
        x == ModPow(a, dr.d, n)
    IN  \/ x = 1
        \/ SquaringReaches(x, dr.r - 1, n)

\* WitnessPasses with composite_found left False when no squaring is made
WitnessPassesUnsquared(n, a) ==
    LET dr == Decompose(n - 1, 0)
        x == ModPow(a, dr.d, n)
    IN  \/ x = 1
        \/ x = n - 1
        \/ dr.r - 1 = 0
        \/ SquaringReaches(x, dr.r - 1, n)

\* WitnessPasses as the Fermat test a^(n-1) = 1 (mod n)
WitnessPassesFermat(n, a) == ModPow(a, n - 1, n) = 1

\* One round of the loop of _miller_rabin_test with witness a: TRUE when it passes.
WitnessPasses(n, a) ==
    LET dr == Decompose(n - 1, 0)
        x == ModPow(a, dr.d, n)
    IN  \/ x = 1
        \/ x = n - 1
        \/ SquaringReaches(x, dr.r - 1, n)

\* MillerRabinEdge without 3 among the numbers answered at once
MillerRabinEdgeTwoOnly(n) ==
    IF n < 2 THEN "composite"
    ELSE IF n \in {2} THEN "prime"
    ELSE IF n % 2 = 0 THEN "composite"
    ELSE "rounds"

\* The tests _miller_rabin_test makes before any witness is drawn:
\* "prime", "composite", or "rounds" when witnesses decide.
MillerRabinEdge(n) ==
    IF n < 2 THEN "composite"
    ELSE IF n \in {2, 3} THEN "prime"
    ELSE IF n % 2 = 0 THEN "composite"
    ELSE "rounds"

\* random.randrange(2, n - 1)
Witnesses(n) == 2 .. (n - 2)

-----------------------------------------------------------------------------
(* _generate_prime *)

small_primes == {3, 5, 7, 11, 13, 17, 19, 23, 29, 31}

\* MakeCandidate with the top bit left as drawn
MakeCandidateLowBit(raw, b) == IF raw % 2 = 1 THEN raw ELSE raw + 1

\* candidate = getrandbits(b) | (1 << (b - 1)) | 1
MakeCandidate(raw, b) ==
    LET top == IF raw >= Pow2(b - 1) THEN raw ELSE raw + Pow2(b - 1)
    IN  IF top % 2 = 1 THEN top ELSE top + 1

DivisibleBySmallPrime(c) == \E sp \in small_primes : c # sp /\ c % sp = 0

-----------------------------------------------------------------------------
(* Construction: PaillierCore.__init__ and create_paillier_instance *)

MinBitLength == 512

\* The bit lengths requested: two below the minimum, the minimum, and the odd
\* length above it.
BitLengths == (MinBitLength - 2) .. (MinBitLength + 1)

EntryPoints == {"PaillierCore", "create_paillier_instance"}

\* The width the model gives a prime of b bits.
PrimeBits(b) == b - (MinBitLength \div 2) + ScaledHalfWidth

\* The check of __init__: the error it raises, or NoError.
InitCheck(bl) ==
    IF bl < MinBitLength
    THEN Error("Bit length minimal 512 untuk keamanan dasar", <<>>)
    ELSE NoError

\* The checks of create_paillier_instance before it calls PaillierCore.
FactoryCheck(bl) ==
    IF bl < MinBitLength THEN Error("Bit length minimal 512", <<>>)
    ELSE IF bl % 2 # 0 THEN Error("Bit length harus genap", <<>>)
    ELSE NoError

ConstructCheck(ep, bl) ==
    IF ep = "create_paillier_instance" /\ FactoryCheck(bl) # NoError
    THEN FactoryCheck(bl)
    ELSE InitCheck(bl)

\* The outcome of a call: the operation, where its ciphertext argument came
\* from ("acc", "stray" or ""), whether the key pair was there when it was
\* called, whether it raised, the error, the value it returned, its integer
\* argument m (the plaintext of encrypt, the constant of
\* homomorphic_multiply_constant, the stray integer given to decrypt) and for
\* encrypt the blinding factor used.
NoRet ==
    [op |-> "", src |-> "", ready |-> FALSE, raised |-> FALSE, err |-> NoError,
     val |-> None, m |-> 0, r |-> 0]

\* What the caller knows of acc: the operations that built it ("enc", then
\* "add" and "scale"), the plaintext m it stands for, and the operands a and b
\* of the last operation (a: the plaintext before it; b: the plaintext added,
\* or the scaling constant).
NoAggregate == [ops |-> <<>>, m |-> 0, a |-> 0, b |-> 0]

\* No helper method has been called on its own.
NoCall == [name |-> "", pc |-> "done"]

\* The threads that share the object.
Threads == {"t1", "t2"}

\* A thread that is making no call.
NoThreadCall == [pc |-> "idle", op |-> "", args |-> <<>>, r |-> 0, out |-> None]

\* The local variables of a call before it assigns any of them.
NoLocals ==
    [n |-> 0, g |-> 0, r |-> 0, g_power_m |-> 0, r_power_n |-> 0, c_lambda |-> 0]

Init ==
    /\ kpc = "new"
    /\ entry = ""
    /\ bit_length = None
    /\ public_key = None
    /\ private_key = None
    /\ n_squared = None
    /\ p = 0
    /\ q = 0
    /\ ppc = "idle"
    /\ candidate = 0
    /\ mr_round = 0
    /\ gen_err = NoError
    /\ epc = "idle"
    /\ plaintext = 0
    /\ ret = NoRet
    /\ acc = None
    /\ agg = NoAggregate
    /\ fn = NoCall
    /\ calls = [t \in Threads |-> NoThreadCall]
    /\ tmp = [t \in Threads |-> NoLocals]

\* A request for an object: rejected with an error and nothing constructed, or
\* lines 51-54 run and _generate_keypair starts.
Construct ==
    /\ kpc \in {"new", "rejected"}
    /\ \E ep \in EntryPoints, bl \in BitLengths :
          /\ entry' = ep
          /\ IF ConstructCheck(ep, bl) # NoError
             THEN /\ kpc' = "rejected"
                  /\ gen_err' = ConstructCheck(ep, bl)
                  /\ UNCHANGED <<bit_length, ppc>>
             ELSE /\ kpc' = "gen_p"
                  /\ gen_err' = NoError
                  /\ bit_length' = Some(bl)
                  /\ ppc' = "draw"
    /\ public_key' = None
    /\ private_key' = None
    /\ n_squared' = None
    /\ UNCHANGED <<p, q, candidate, mr_round>>
    /\ UNCHANGED callVars
    /\ UNCHANGED <<fn, threadVars>>

\* _generate_prime returns candidate to _generate_keypair (lines 236-241).
ReturnPrime(c) ==
    /\ ppc' = "idle"
    /\ IF kpc = "gen_p"
       THEN /\ p' = c
            /\ kpc' = "gen_q"
            /\ UNCHANGED q
       ELSE /\ q' = c
            /\ kpc' = "have_pq"
            /\ UNCHANGED p

\* One iteration of the loop of _generate_prime up to the call of the test.
DrawCandidate ==
    /\ kpc \in {"gen_p", "gen_q"}
    /\ ppc \in {"idle", "draw"}
    /\ \E raw \in 0 .. (Pow2(PrimeBits(Get(bit_length) \div 2)) - 1) :
          LET c == MakeCandidate(raw, PrimeBits(Get(bit_length) \div 2))
          IN  /\ candidate' = c
              /\ mr_round' = 0
              /\ IF DivisibleBySmallPrime(c) \/ MillerRabinEdge(c) = "composite"
                 THEN /\ ppc' = "draw"
                      /\ UNCHANGED <<kpc, p, q>>
                 ELSE IF MillerRabinEdge(c) = "prime"
                 THEN ReturnPrime(c)
                 ELSE /\ ppc' = "mr"
                      /\ UNCHANGED <<kpc, p, q>>
    /\ UNCHANGED <<entry, gen_err>>
    /\ UNCHANGED keyVars
    /\ UNCHANGED callVars
    /\ UNCHANGED <<fn, threadVars>>

\* One round of _miller_rabin_test on candidate.
MillerRabinRound ==
    /\ kpc \in {"gen_p", "gen_q"}
    /\ ppc = "mr"
    /\ \E a \in Witnesses(candidate) :
          IF ~WitnessPasses(candidate, a)
          THEN /\ ppc' = "draw"
               /\ mr_round' = 0
               /\ UNCHANGED <<kpc, p, q>>
          ELSE IF mr_round + 1 < MillerRabinRounds
          THEN /\ mr_round' = mr_round + 1
               /\ UNCHANGED <<kpc, p, q, ppc>>
          ELSE /\ mr_round' = mr_round + 1
               /\ ReturnPrime(candidate)
    /\ UNCHANGED <<entry, candidate, gen_err>>
    /\ UNCHANGED keyVars
    /\ UNCHANGED callVars
    /\ UNCHANGED <<fn, threadVars>>

\* Lines 243-260 of _generate_keypair for the values p and q the generator
\* returned: the fields as the method leaves them, and the error it raises.
\* n_squared is assigned at line 245, before _modular_inverse is called at
\* line 256; the keys are assigned after it, at lines 259-260.
KeypairOf(pp, qq) ==
    LET n == pp * qq
        lambda_n == ComputeLcm(pp - 1, qq - 1)
        g == n + 1
        mu == ModularInverse(lambda_n, n)
    IN  IF mu.raised
        THEN [raised |-> TRUE, err |-> mu.err, n_squared |-> Some(n * n),
              public_key |-> None, private_key |-> None]
        ELSE [raised |-> FALSE, err |-> NoError, n_squared |-> Some(n * n),
              public_key |-> Some([n |-> n, g |-> g]),
              private_key |-> Some([lambda |-> lambda_n, mu |-> mu.val, n |-> n])]

\* Lines 240-260 of _generate_keypair: the test p == q, then the key.
FinishKeypair ==
    /\ kpc = "have_pq"
    /\ IF p = q
       THEN /\ kpc' = "gen_q"
            /\ ppc' = "draw"
            /\ UNCHANGED <<gen_err, p, q>>
            /\ UNCHANGED keyVars
       ELSE LET out == KeypairOf(p, q)
            IN  /\ n_squared' = out.n_squared
                /\ public_key' = out.public_key
                /\ private_key' = out.private_key
                /\ gen_err' = out.err
                /\ kpc' = IF out.raised THEN "failed" ELSE "ready"
                /\ p' = 0
                /\ q' = 0
                /\ UNCHANGED <<bit_length, ppc>>
    /\ UNCHANGED <<entry, candidate, mr_round>>
    /\ UNCHANGED callVars
    /\ UNCHANGED <<fn, threadVars>>

-----------------------------------------------------------------------------
(* The cipher operations, as functions of the object's fields *)

Raise(msg, args) == [raised |-> TRUE, err |-> Error(msg, args), val |-> None]
Return(v) == [raised |-> FALSE, err |-> NoError, val |-> Some(v)]

\* _L_function
LFunction(x, n) == (x - 1) \div n

\* EncryptCheck with the upper test off by one: m = n is accepted
EncryptCheckInclusive(pk, m) ==
    IF pk = None THEN Raise("Kunci publik belum dibuat", <<>>)
    ELSE IF m < 0 THEN Raise("Plaintext harus bilangan non-negatif", <<>>)
    ELSE IF m > Get(pk).n
    THEN Raise("Plaintext ({plaintext}) harus < n ({n})", <<m, Get(pk).n>>)
    ELSE Return(m)

\* encrypt, lines 301-312: the error raised before any randomness is drawn.
EncryptCheck(pk, m) ==
    IF pk = None THEN Raise("Kunci publik belum dibuat", <<>>)
    ELSE IF m < 0 THEN Raise("Plaintext harus bilangan non-negatif", <<>>)
    ELSE IF m >= Get(pk).n
    THEN Raise("Plaintext ({plaintext}) harus < n ({n})", <<m, Get(pk).n>>)
    ELSE Return(m)

\* random.randrange(1, n)
BlindingDraws(n) == 1 .. Min(n - 1, MaxDraw)

\* EncryptValue with r left unraised: c = g^m * r mod n^2
EncryptValueUnraised(pk, nsq, m, r) ==
    MulMod(ModPow(Get(pk).g, m, Get(nsq)), r, Get(nsq))

\* EncryptValue with the product reduced modulo n instead of n^2
EncryptValueModN(pk, nsq, m, r) ==
    LET g_power_m == ModPow(Get(pk).g, m, Get(nsq))
        r_power_n == ModPow(r, Get(pk).n, Get(nsq))
    IN  MulMod(g_power_m, r_power_n, Get(pk).n)

\* encrypt, lines 321-327: c = g^m * r^n mod n^2
EncryptValue(pk, nsq, m, r) ==
    LET g_power_m == ModPow(Get(pk).g, m, Get(nsq))
        r_power_n == ModPow(r, Get(pk).n, Get(nsq))
    IN  MulMod(g_power_m, r_power_n, Get(nsq))

\* Decrypt refusing a ciphertext outside 0 .. n^2 - 1
DecryptValidating(pk, sk, nsq, ciphertext) ==
    IF sk = None THEN Raise("Private key tidak tersedia", <<>>)
    ELSE IF ciphertext < 0 \/ ciphertext >= Get(nsq)
    THEN Raise("Ciphertext di luar jangkauan", <<>>)
    ELSE LET lambda_n == Get(sk).lambda
             mu == Get(sk).mu
             n == Get(sk).n
             c_lambda == ModPow(ciphertext, lambda_n, Get(nsq))
             l_result == LFunction(c_lambda, Get(pk).n)
         IN  Return((l_result * mu) % n)

\* decrypt
Decrypt(pk, sk, nsq, ciphertext) ==
    IF sk = None THEN Raise("Private key tidak tersedia", <<>>)
    ELSE LET lambda_n == Get(sk).lambda
             mu == Get(sk).mu
             n == Get(sk).n
             c_lambda == ModPow(ciphertext, lambda_n, Get(nsq))
             l_result == LFunction(c_lambda, Get(pk).n)
         IN  Return((l_result * mu) % n)

\* HomomorphicAdd with the ciphertexts added instead of multiplied
HomomorphicAddSum(pk, nsq, ciphertext1, ciphertext2) ==
    IF pk = None THEN Raise("Public key tidak tersedia", <<>>)
    ELSE Return((ciphertext1 + ciphertext2) % Get(nsq))

\* HomomorphicAdd with the product left unreduced
HomomorphicAddUnreduced(pk, nsq, ciphertext1, ciphertext2) ==
    IF pk = None THEN Raise("Public key tidak tersedia", <<>>)
    ELSE Return(ciphertext1 * ciphertext2)

\* HomomorphicAdd with the product reduced modulo n instead of n^2
HomomorphicAddModN(pk, nsq, ciphertext1, ciphertext2) ==
    IF pk = None THEN Raise("Public key tidak tersedia", <<>>)
    ELSE Return(MulMod(ciphertext1, ciphertext2, Get(pk).n))

\* homomorphic_add
HomomorphicAdd(pk, nsq, ciphertext1, ciphertext2) ==
    IF pk = None THEN Raise("Public key tidak tersedia", <<>>)
    ELSE Return(MulMod(ciphertext1, ciphertext2, Get(nsq)))

\* HomomorphicMultiplyConstant with a product instead of a power
HomomorphicMultiplyConstantProduct(pk, nsq, ciphertext, constant) ==
    IF pk = None THEN Raise("Public key tidak tersedia", <<>>)
    ELSE IF constant < 0 THEN Raise("Konstanta harus non-negatif", <<>>)
    ELSE Return(MulMod(ciphertext, constant, Get(nsq)))

\* HomomorphicMultiplyConstant with the constant 0 refused too
HomomorphicMultiplyConstantPositive(pk, nsq, ciphertext, constant) ==
    IF pk = None THEN Raise("Public key tidak tersedia", <<>>)
    ELSE IF constant <= 0 THEN Raise("Konstanta harus non-negatif", <<>>)
    ELSE Return(ModPow(ciphertext, constant, Get(nsq)))

\* homomorphic_multiply_constant
HomomorphicMultiplyConstant(pk, nsq, ciphertext, constant) ==
    IF pk = None THEN Raise("Public key tidak tersedia", <<>>)
    ELSE IF constant < 0 THEN Raise("Konstanta harus non-negatif", <<>>)
    ELSE Return(ModPow(ciphertext, constant, Get(nsq)))

\* DictCopy handing out the dictionary itself
DictCopyAlias(d) == d

\* dict.copy(): another dictionary with the items of d
DictCopy(d) == [id |-> "copy", items |-> d.items]

\* get_public_key: the dictionary it returns, with the object it is
GetPublicKey(pk) ==
    IF pk = None THEN Raise("Kunci belum dibuat", <<>>)
    ELSE Return(DictCopy([id |-> "self.public_key", items |-> Get(pk)]))

\* GetKeyInfo raising on an absent key, as get_public_key does
GetKeyInfoRaising(pk, bl) ==
    IF pk = None THEN Raise("Kunci belum dibuat", <<>>)
    ELSE Return([bit_length |-> Get(bl),
                 n_bit_length |-> BitLength(Get(pk).n),
                 security_level |-> <<Get(bl), "-bit">>,
                 n_value |-> Get(pk).n,
                 g_value |-> Get(pk).g,
                 status |-> "Ready"])

\* get_key_info
GetKeyInfo(pk, bl) ==
    IF pk = None THEN Return([status |-> "Keys not generated"])
    ELSE Return([bit_length |-> Get(bl),
                 n_bit_length |-> BitLength(Get(pk).n),
                 security_level |-> <<Get(bl), "-bit">>,
                 n_value |-> Get(pk).n,
                 g_value |-> Get(pk).g,
                 status |-> "Ready"])

-----------------------------------------------------------------------------
(* Calls on the object *)

\* The object exists once lines 51-54 of __init__ have run.
Constructed == kpc \notin {"new", "rejected"}

Callable == Constructed /\ epc = "idle"

Outcome(op, src, out, m, r) ==
    [op |-> op, src |-> src, ready |-> public_key # None, raised |-> out.raised,
     err |-> out.err, val |-> out.val, m |-> m, r |-> r]

\* The plaintexts offered to encrypt: around 0 and, with a key, around n.
Plaintexts ==
    {-1, 0, 1} \cup
    (IF public_key = None THEN {}
     ELSE (Get(public_key).n - 1) .. (Get(public_key).n + 1))

\* The constants offered to homomorphic_multiply_constant.
ScalingConstants ==
    {-1, 0, 2} \cup
    (IF public_key = None THEN {}
     ELSE {Get(public_key).n, Get(public_key).n + 1})

\* Integers passed as ciphertexts that no encrypt call returned: around 0 and,
\* with a key, n (which shares its factors with n) and one above n^2.
StrayCiphertexts ==
    {-1, 0, 1} \cup
    (IF public_key = None THEN {} ELSE {Get(public_key).n}) \cup
    (IF n_squared = None THEN {} ELSE {Get(n_squared) + 2})

\* The last call was an encrypt that returned a ciphertext.
Encrypted == ret.op = "encrypt" /\ ~ret.raised

\* encrypt up to the loop that draws r: it raises, or enters the loop.
EncryptCall ==
    /\ Callable
    /\ \E m \in Plaintexts :
          LET out == EncryptCheck(public_key, m)
          IN  IF out.raised
              THEN /\ ret' = Outcome("encrypt", "", out, m, 0)
                   /\ UNCHANGED <<epc, plaintext>>
              ELSE /\ ret' = NoRet
                   /\ epc' = "draw"
                   /\ plaintext' = m
    /\ UNCHANGED <<acc, agg>>
    /\ UNCHANGED keyVars
    /\ UNCHANGED genVars
    /\ UNCHANGED <<fn, threadVars>>

\* EncryptDraw without the test gcd(r, n) == 1: the first draw is used
EncryptDrawUnchecked ==
    /\ epc = "draw"
    /\ \E r \in BlindingDraws(Get(public_key).n) :
          /\ epc' = "idle"
          /\ plaintext' = 0
          /\ ret' = Outcome("encrypt", "",
                            Return(EncryptValue(public_key, n_squared, plaintext, r)),
                            plaintext, r)
    /\ UNCHANGED <<acc, agg>>
    /\ UNCHANGED keyVars
    /\ UNCHANGED genVars
    /\ UNCHANGED <<fn, threadVars>>

\* One iteration of the loop of encrypt, lines 316-319 and, when the loop is
\* left, 321-327: a draw that shares a factor with n stays in the local r (kept
\* in ret.r) and the loop goes round again, any other builds the ciphertext and
\* returns it.
EncryptDraw ==
    /\ epc = "draw"
    /\ \E r \in BlindingDraws(Get(public_key).n) :
          IF Gcd(r, Get(public_key).n) = 1
          THEN /\ epc' = "idle"
               /\ plaintext' = 0
               /\ ret' = Outcome("encrypt", "",
                                 Return(EncryptValue(public_key, n_squared, plaintext, r)),
                                 plaintext, r)
          ELSE /\ ret' = [NoRet EXCEPT !.r = r]
               /\ UNCHANGED <<epc, plaintext>>
    /\ UNCHANGED <<acc, agg>>
    /\ UNCHANGED keyVars
    /\ UNCHANGED genVars
    /\ UNCHANGED <<fn, threadVars>>

\* result_enc = encrypted_values[0]: the caller starts an aggregate with the
\* ciphertext encrypt just returned.
StartAggregate ==
    /\ Callable
    /\ Encrypted
    /\ acc' = ret.val
    /\ agg' = [ops |-> <<"enc">>, m |-> ret.m, a |-> ret.m, b |-> 0]
    /\ ret' = NoRet
    /\ UNCHANGED <<epc, plaintext>>
    /\ UNCHANGED keyVars
    /\ UNCHANGED genVars
    /\ UNCHANGED <<fn, threadVars>>

\* decrypt(result_enc); a caller that holds no ciphertext passes a stray integer.
DecryptCall ==
    /\ Callable
    /\ \E c \in (IF acc = None THEN StrayCiphertexts ELSE {Get(acc)}) :
          ret' = Outcome("decrypt", IF acc = None THEN "stray" ELSE "acc",
                         Decrypt(public_key, private_key, n_squared, c),
                         IF acc = None THEN c ELSE 0, 0)
    /\ UNCHANGED <<epc, plaintext, acc, agg>>
    /\ UNCHANGED keyVars
    /\ UNCHANGED genVars
    /\ UNCHANGED <<fn, threadVars>>

\* result_enc = homomorphic_add(result_enc, enc) with the ciphertext encrypt
\* just returned; a caller that holds no ciphertext passes stray integers.
HomomorphicAddCall ==
    /\ Callable
    /\ IF acc = None
       THEN /\ \E c1, c2 \in StrayCiphertexts :
                  ret' = Outcome("homomorphic_add", "stray",
                                 HomomorphicAdd(public_key, n_squared, c1, c2), 0, 0)
            /\ UNCHANGED <<acc, agg>>
       ELSE /\ Encrypted
            /\ Len(agg.ops) < MaxSteps
            /\ LET out == HomomorphicAdd(public_key, n_squared, Get(acc), Get(ret.val))
               IN  /\ ret' = Outcome("homomorphic_add", "acc", out, 0, 0)
                   /\ IF out.raised
                      THEN UNCHANGED <<acc, agg>>
                      ELSE /\ acc' = out.val
                           /\ agg' = [ops |-> Append(agg.ops, "add"),
                                      m |-> (agg.m + ret.m) % Get(public_key).n,
                                      a |-> agg.m,
                                      b |-> ret.m]
    /\ UNCHANGED <<epc, plaintext>>
    /\ UNCHANGED keyVars
    /\ UNCHANGED genVars
    /\ UNCHANGED <<fn, threadVars>>

\* result_enc = homomorphic_multiply_constant(result_enc, k); a caller that
\* holds no ciphertext passes a stray integer.
HomomorphicMultiplyConstantCall ==
    /\ Callable
    /\ \E k \in ScalingConstants :
          IF acc = None
          THEN /\ \E c \in StrayCiphertexts :
                     ret' = Outcome("homomorphic_multiply_constant", "stray",
                                    HomomorphicMultiplyConstant(public_key, n_squared, c, k),
                                    k, 0)
               /\ UNCHANGED <<acc, agg>>
          ELSE /\ Len(agg.ops) < MaxSteps
               /\ LET out == HomomorphicMultiplyConstant(public_key, n_squared, Get(acc), k)
                  IN  /\ ret' = Outcome("homomorphic_multiply_constant", "acc", out, k, 0)
                      /\ IF out.raised
                         THEN UNCHANGED <<acc, agg>>
                         ELSE /\ acc' = out.val
                              /\ agg' = [ops |-> Append(agg.ops, "scale"),
                                         m |-> (agg.m * k) % Get(public_key).n,
                                         a |-> agg.m,
                                         b |-> k]
    /\ UNCHANGED <<epc, plaintext>>
    /\ UNCHANGED keyVars
    /\ UNCHANGED genVars
    /\ UNCHANGED <<fn, threadVars>>

\* GetPublicKeyCall handing out the dictionary itself, which the caller then
\* changes: self.public_key['n'] is overwritten.
GetPublicKeyCallShared ==
    /\ Callable
    /\ ret' = Outcome("get_public_key", "", GetPublicKey(public_key), 0, 0)
    /\ public_key' = IF public_key = None THEN None
                     ELSE Some([Get(public_key) EXCEPT !.n = 1])
    /\ UNCHANGED <<bit_length, private_key, n_squared>>
    /\ UNCHANGED <<epc, plaintext, acc, agg>>
    /\ UNCHANGED genVars
    /\ UNCHANGED <<fn, threadVars>>


GetPublicKeyCall ==
    /\ Callable
    /\ ret' = Outcome("get_public_key", "", GetPublicKey(public_key), 0, 0)
    /\ UNCHANGED <<epc, plaintext, acc, agg>>
    /\ UNCHANGED keyVars
    /\ UNCHANGED genVars
    /\ UNCHANGED <<fn, threadVars>>

\* The value the caller writes into the dictionary get_public_key returned.
Overwritten == 1

\* The caller assigns to the entry 'n' of the dictionary get_public_key
\* returned; self.public_key changes with it when the two are one object.
ModifyReturned ==
    /\ Callable
    /\ ret.op = "get_public_key"
    /\ ~ret.raised
    /\ Get(ret.val).items.n # Overwritten
    /\ LET d == Get(ret.val)
           items == [d.items EXCEPT !.n = Overwritten]
       IN  /\ ret' = [ret EXCEPT !.val = Some([d EXCEPT !.items = items])]
           /\ public_key' = IF d.id = "self.public_key" THEN Some(items)
                            ELSE public_key
    /\ UNCHANGED <<bit_length, private_key, n_squared>>
    /\ UNCHANGED <<epc, plaintext, acc, agg>>
    /\ UNCHANGED genVars
    /\ UNCHANGED <<fn, threadVars>>

GetKeyInfoCall ==
    /\ Callable
    /\ ret' = Outcome("get_key_info", "", GetKeyInfo(public_key, bit_length), 0, 0)
    /\ UNCHANGED <<epc, plaintext, acc, agg>>
    /\ UNCHANGED keyVars
    /\ UNCHANGED genVars
    /\ UNCHANGED <<fn, threadVars>>

Next ==
    \/ Construct
    \/ DrawCandidate
    \/ MillerRabinRound
    \/ FinishKeypair
    \/ EncryptCall
    \/ EncryptDraw
    \/ StartAggregate
    \/ DecryptCall
    \/ HomomorphicAddCall
    \/ HomomorphicMultiplyConstantCall
    \/ GetPublicKeyCall
    \/ ModifyReturned
    \/ GetKeyInfoCall

Spec == Init /\ [][Next]_vars

\* Key generation and encrypt alone.
NextEncrypt ==
    \/ Construct
    \/ DrawCandidate
    \/ MillerRabinRound
    \/ FinishKeypair
    \/ EncryptCall
    \/ EncryptDraw

\* The iteration of the loop of encrypt that leaves it at line 319: some draw
\* of random.randrange(1, n) is coprime to n, and the loop ends.  Of the
\* actions, only EncryptDraw takes epc from "draw" to "idle".
EncryptAccept ==
    /\ epc = "draw"
    /\ \E r \in BlindingDraws(Get(public_key).n) : Gcd(r, Get(public_key).n) = 1
    /\ epc' = "idle"

\* Fair randomness: in a loop that keeps drawing, a draw that is possible at
\* every iteration is made at some iteration.
FairEncrypt == Init /\ [][NextEncrypt]_vars /\ SF_epc(EncryptAccept)

-----------------------------------------------------------------------------
(* Several threads calling the methods of one shared object *)

\* Slot with one place for every thread, as attributes of self would be
SlotShared(t) == "t1"

\* The frame that holds the local variables of thread t's call: every call
\* has its own.
Slot(t) == t

Locals(t) == tmp[Slot(t)]

NoOutcome == [raised |-> FALSE, err |-> NoError, val |-> None]

\* The arguments the threads pass.
ThreadPlaintexts == {-1, 1, Get(public_key).n - 1}
ThreadConstants == {-1, 2}
ThreadCiphertexts ==
    {EncryptValue(public_key, n_squared, m, r) :
        m \in {1, Get(public_key).n - 1}, r \in {1, 2}}

\* Thread t can start a call: the key pair is ready and t is in no call.
CanCall(t) ==
    /\ public_key # None
    /\ private_key # None
    /\ calls[t].pc \in {"idle", "done"}

\* Thread t moves on inside its call.
Proceed(t, pc, op, args, r, locals) ==
    /\ calls' = [calls EXCEPT
                    ![t] = [pc |-> pc, op |-> op, args |-> args, r |-> r,
                            out |-> NoOutcome]]
    /\ tmp' = [tmp EXCEPT ![Slot(t)] = locals]

\* Thread t's call returns or raises: its frame is gone.
Finish(t, op, args, r, out) ==
    /\ calls' = [calls EXCEPT
                    ![t] = [pc |-> "done", op |-> op, args |-> args, r |-> r,
                            out |-> out]]
    /\ tmp' = [tmp EXCEPT ![Slot(t)] = NoLocals]

\* encrypt, lines 301-312: the checks, and the locals n and g.
ThreadEncryptStart(t) ==
    /\ CanCall(t)
    /\ \E m \in ThreadPlaintexts :
          LET out == EncryptCheck(public_key, m)
          IN  IF out.raised
              THEN Finish(t, "encrypt", <<m>>, 0, out)
              ELSE Proceed(t, "draw", "encrypt", <<m>>, 0,
                           [NoLocals EXCEPT !.n = Get(public_key).n,
                                            !.g = Get(public_key).g])
    /\ UNCHANGED <<keyVars, genVars, callVars, fn>>

\* encrypt, lines 314-319: one iteration of the loop that draws r.
ThreadEncryptDraw(t) ==
    /\ calls[t].pc = "draw"
    /\ \E r \in BlindingDraws(Locals(t).n) :
          IF Gcd(r, Locals(t).n) = 1
          THEN Proceed(t, "powers", "encrypt", calls[t].args, r,
                       [Locals(t) EXCEPT !.r = r])
          ELSE UNCHANGED <<calls, tmp>>
    /\ UNCHANGED <<keyVars, genVars, callVars, fn>>

\* encrypt, lines 321-322: the locals g_power_m and r_power_n.
ThreadEncryptPowers(t) ==
    /\ calls[t].pc = "powers"
    /\ Proceed(t, "product", "encrypt", calls[t].args, calls[t].r,
               [Locals(t) EXCEPT
                   !.g_power_m = ModPow(Locals(t).g, calls[t].args[1], Get(n_squared)),
                   !.r_power_n = ModPow(Locals(t).r, Locals(t).n, Get(n_squared))])
    /\ UNCHANGED <<keyVars, genVars, callVars, fn>>

\* encrypt, lines 325-327: the product, returned.
ThreadEncryptProduct(t) ==
    /\ calls[t].pc = "product"
    /\ Finish(t, "encrypt", calls[t].args, calls[t].r,
              Return(MulMod(Locals(t).g_power_m, Locals(t).r_power_n, Get(n_squared))))
    /\ UNCHANGED <<keyVars, genVars, callVars, fn>>

\* decrypt, lines 356-365: the check, and the local c_lambda.
ThreadDecryptStart(t) ==
    /\ CanCall(t)
    /\ \E c \in ThreadCiphertexts :
          IF private_key = None
          THEN Finish(t, "decrypt", <<c>>, 0, Raise("Private key tidak tersedia", <<>>))
          ELSE Proceed(t, "l_function", "decrypt", <<c>>, 0,
                       [NoLocals EXCEPT
                           !.c_lambda = ModPow(c, Get(private_key).lambda, Get(n_squared))])
    /\ UNCHANGED <<keyVars, genVars, callVars, fn>>

\* decrypt, lines 367-372: L(c_lambda) * mu mod n, returned; mu and n are the
\* entries of self.private_key.
ThreadDecryptFinish(t) ==
    /\ calls[t].pc = "l_function"
    /\ Finish(t, "decrypt", calls[t].args, 0,
              Return((LFunction(Locals(t).c_lambda, Get(public_key).n)
                        * Get(private_key).mu) % Get(private_key).n))
    /\ UNCHANGED <<keyVars, genVars, callVars, fn>>

\* homomorphic_add: the check and one expression.
ThreadHomomorphicAdd(t) ==
    /\ CanCall(t)
    /\ \E c1, c2 \in ThreadCiphertexts :
          Finish(t, "homomorphic_add", <<c1, c2>>, 0,
                 HomomorphicAdd(public_key, n_squared, c1, c2))
    /\ UNCHANGED <<keyVars, genVars, callVars, fn>>

\* homomorphic_multiply_constant: the checks and one expression.
ThreadHomomorphicMultiplyConstant(t) ==
    /\ CanCall(t)
    /\ \E c \in ThreadCiphertexts, k \in ThreadConstants :
          Finish(t, "homomorphic_multiply_constant", <<c, k>>, 0,
                 HomomorphicMultiplyConstant(public_key, n_squared, c, k))
    /\ UNCHANGED <<keyVars, genVars, callVars, fn>>

NextThreads ==
    \/ Construct
    \/ DrawCandidate
    \/ MillerRabinRound
    \/ FinishKeypair
    \/ \E t \in Threads : ThreadEncryptStart(t)
    \/ \E t \in Threads : ThreadEncryptDraw(t)
    \/ \E t \in Threads : ThreadEncryptPowers(t)
    \/ \E t \in Threads : ThreadEncryptProduct(t)
    \/ \E t \in Threads : ThreadDecryptStart(t)
    \/ \E t \in Threads : ThreadDecryptFinish(t)
    \/ \E t \in Threads : ThreadHomomorphicAdd(t)
    \/ \E t \in Threads : ThreadHomomorphicMultiplyConstant(t)

SpecThreads == Init /\ [][NextThreads]_vars

-----------------------------------------------------------------------------
(* The helper methods, each called on its own *)

\* A helper is called when none has been: one call is followed to its end.
HelperIdle == fn = NoCall

\* _extended_gcd(a, b)
ExtendedGcdCall ==
    /\ HelperIdle
    /\ \E a, b \in 0 .. MaxArg :
          fn' = [name |-> "_extended_gcd", pc |-> "done", a |-> a, b |-> b,
                 depth |-> ExtendedGcdDepth(a, b), out |-> ExtendedGcd(a, b)]
    /\ UNCHANGED <<keyVars, genVars, callVars, threadVars>>

\* _modular_inverse(a, m)
ModularInverseCall ==
    /\ HelperIdle
    /\ \E a \in (-MaxArg) .. MaxArg, m \in 1 .. MaxArg :
          fn' = [name |-> "_modular_inverse", pc |-> "done", a |-> a, m |-> m,
                 out |-> ModularInverse(a, m)]
    /\ UNCHANGED <<keyVars, genVars, callVars, threadVars>>

\* The frame of _miller_rabin_test(n, rounds) after i rounds: a is the witness
\* drawn last, 0 before the first draw.
MillerRabinFrame(pc, n, rounds, i, a, out) ==
    [name |-> "_miller_rabin_test", pc |-> pc, n |-> n, rounds |-> rounds,
     i |-> i, a |-> a, out |-> out]

\* _miller_rabin_test(n, rounds) up to its loop: lines 78-92, and line 117
\* when range(rounds) is empty.
MillerRabinCall ==
    /\ HelperIdle
    /\ \E n \in (-1) .. MaxTested, rounds \in 0 .. MaxRounds :
          fn' = IF MillerRabinEdge(n) = "composite"
                THEN MillerRabinFrame("done", n, rounds, 0, 0, FALSE)
                ELSE IF MillerRabinEdge(n) = "prime" \/ rounds = 0
                THEN MillerRabinFrame("done", n, rounds, 0, 0, TRUE)
                ELSE MillerRabinFrame("round", n, rounds, 0, 0, FALSE)
    /\ UNCHANGED <<keyVars, genVars, callVars, threadVars>>

\* One round of the loop of _miller_rabin_test, lines 95-115.
MillerRabinStep ==
    /\ fn.name = "_miller_rabin_test"
    /\ fn.pc = "round"
    /\ \E a \in Witnesses(fn.n) :
          fn' = IF ~WitnessPasses(fn.n, a)
                THEN MillerRabinFrame("done", fn.n, fn.rounds, fn.i, a, FALSE)
                ELSE IF fn.i + 1 < fn.rounds
                THEN MillerRabinFrame("round", fn.n, fn.rounds, fn.i + 1, a, FALSE)
                ELSE MillerRabinFrame("done", fn.n, fn.rounds, fn.i + 1, a, TRUE)
    /\ UNCHANGED <<keyVars, genVars, callVars, threadVars>>

\* The frame of _generate_prime(b): the candidate, the rounds of the test it
\* has passed, and the value returned.
GeneratePrimeFrame(pc, b, c, i, out) ==
    [name |-> "_generate_prime", pc |-> pc, b |-> b, candidate |-> c,
     i |-> i, out |-> out]

\* _generate_prime(b) is called.
GeneratePrimeCall ==
    /\ HelperIdle
    /\ \E b \in 2 .. MaxPrimeWidth :
          fn' = GeneratePrimeFrame("draw", b, 0, 0, 0)
    /\ UNCHANGED <<keyVars, genVars, callVars, threadVars>>

\* One iteration of the loop of _generate_prime up to the rounds of the
\* test, lines 140-155.
GeneratePrimeDraw ==
    /\ fn.name = "_generate_prime"
    /\ fn.pc = "draw"
    /\ \E raw \in 0 .. (Pow2(fn.b) - 1) :
          LET c == MakeCandidate(raw, fn.b)
          IN  fn' = IF DivisibleBySmallPrime(c) \/ MillerRabinEdge(c) = "composite"
                    THEN GeneratePrimeFrame("draw", fn.b, c, 0, 0)
                    ELSE IF MillerRabinEdge(c) = "prime"
                    THEN GeneratePrimeFrame("done", fn.b, c, 0, c)
                    ELSE GeneratePrimeFrame("mr", fn.b, c, 0, 0)
    /\ UNCHANGED <<keyVars, genVars, callVars, threadVars>>

\* One round of the test _generate_prime makes of its candidate, lines 155-156.
GeneratePrimeRound ==
    /\ fn.name = "_generate_prime"
    /\ fn.pc = "mr"
    /\ \E a \in Witnesses(fn.candidate) :
          fn' = IF ~WitnessPasses(fn.candidate, a)
                THEN GeneratePrimeFrame("draw", fn.b, fn.candidate, 0, 0)
                ELSE IF fn.i + 1 < MillerRabinRounds
                THEN GeneratePrimeFrame("mr", fn.b, fn.candidate, fn.i + 1, 0)
                ELSE GeneratePrimeFrame("done", fn.b, fn.candidate, fn.i + 1,
                                        fn.candidate)
    /\ UNCHANGED <<keyVars, genVars, callVars, threadVars>>

\* _generate_keypair from the two values _generate_prime returned to it,
\* lines 243-260.  The values are odd; they stand for primes and for the
\* composites that pass every round of the test.
GenerateKeypairCall ==
    /\ HelperIdle
    /\ \E pp, qq \in {x \in 3 .. MaxFactor : x % 2 = 1} :
          /\ pp # qq
          /\ fn' = [name |-> "_generate_keypair", pc |-> "done", p |-> pp,
                    q |-> qq, out |-> KeypairOf(pp, qq)]
    /\ UNCHANGED <<keyVars, genVars, callVars, threadVars>>

NextHelpers ==
    \/ ExtendedGcdCall
    \/ ModularInverseCall
    \/ MillerRabinCall
    \/ MillerRabinStep
    \/ GeneratePrimeCall
    \/ GeneratePrimeDraw
    \/ GeneratePrimeRound
    \/ GenerateKeypairCall

SpecHelpers == Init /\ [][NextHelpers]_vars

\* The thread that runs _generate_prime keeps running its loop.
FairHelpers ==
    /\ SpecHelpers
    /\ WF_vars(GeneratePrimeDraw)
    /\ WF_vars(GeneratePrimeRound)

-----------------------------------------------------------------------------
(* What the properties below speak of *)

KeyReady == public_key # None /\ private_key # None
KeyAbsent == public_key = None /\ private_key = None

N == Get(public_key).n

\* The blinding factors encrypt can end its loop with.
Units(n) == {r \in 1 .. (n - 1) : Gcd(r, n) = 1}

\* The last call decrypted the caller's aggregate.
DecryptedAggregate == ret.op = "decrypt" /\ ret.src = "acc" /\ ~ret.raised

\* The key is ready and nothing has been called on it yet: the state in which
\* a property of the key as a whole is evaluated, once per key.
KeyFresh == KeyReady /\ ret = NoRet /\ acc = None /\ epc = "idle"

\* acc was built from one encryption by additions alone.
AddOnly(ops) == \A i \in 2 .. Len(ops) : ops[i] = "add"

\* The messages of the error kinds the specification names.
InvalidPlaintextMessages ==
    {"Plaintext harus bilangan non-negatif", "Plaintext ({plaintext}) harus < n ({n})"}
InvalidKeySizeMessages ==
    {"Bit length minimal 512 untuk keamanan dasar", "Bit length minimal 512",
     "Bit length harus genap"}
InvalidConstantMessages == {"Konstanta harus non-negatif"}
UninitializedKeyMessages ==
    {"Kunci publik belum dibuat", "Private key tidak tersedia",
     "Public key tidak tersedia", "Kunci belum dibuat"}

-----------------------------------------------------------------------------
(* C1 *)

\* C1: round trip.  Whenever the caller decrypts a ciphertext that encrypt
\* returned for the plaintext m, decrypt returns m; and for the key in force,
\* every plaintext m in 0 .. n-1 and every blinding factor r in 1 .. n-1 coprime
\* to n, decrypting the ciphertext built from m and r yields m.
C1_RoundTrip ==
    /\ (DecryptedAggregate /\ agg.ops = <<"enc">>) => ret.val = Some(agg.m)
    /\ KeyFresh =>
          \A m \in 0 .. (N - 1) : \A r \in Units(N) :
             Decrypt(public_key, private_key, n_squared,
                     EncryptValue(public_key, n_squared, m, r)) = Return(m)

\* The largest plaintext, encrypted with a blinding factor other than 1 and
\* decrypted.
C1_Witness ==
    /\ DecryptedAggregate
    /\ agg.ops = <<"enc">>
    /\ agg.m = N - 1
    /\ Get(acc) # ModPow(Get(public_key).g, agg.m, Get(n_squared))
    /\ ret.val = Some(N - 1)

-----------------------------------------------------------------------------
(* C2 *)

\* C2: homomorphic addition law.  Whenever the caller decrypts
\* homomorphic_add(encrypt(a), encrypt(b)), decrypt returns (a + b) mod n, and
\* a + b itself when a + b < n.
C2_AdditionLaw ==
    (DecryptedAggregate /\ agg.ops = <<"enc", "add">>) =>
        /\ ret.val = Some((agg.a + agg.b) % N)
        /\ agg.a + agg.b < N => ret.val = Some(agg.a + agg.b)

\* A sum that wraps around n: (n - 1) + 1 decrypts to 0.
C2_Witness ==
    /\ DecryptedAggregate
    /\ agg.ops = <<"enc", "add">>
    /\ agg.a = N - 1
    /\ agg.b = 1
    /\ ret.val = Some(0)

-----------------------------------------------------------------------------
(* C3 *)

\* C3: homomorphic scaling law.  Whenever the caller decrypts
\* homomorphic_multiply_constant(encrypt(a), k) for a constant k >= 0,
\* decrypt returns (a * k) mod n.
C3_ScalingLaw ==
    (DecryptedAggregate /\ agg.ops = <<"enc", "scale">>) =>
        ret.val = Some((agg.a * agg.b) % N)

\* A constant above n: (n - 1) * (n + 1) decrypts to n - 1.
C3_Witness ==
    /\ DecryptedAggregate
    /\ agg.ops = <<"enc", "scale">>
    /\ agg.a = N - 1
    /\ agg.b = N + 1
    /\ ret.val = Some(N - 1)

-----------------------------------------------------------------------------
(* C4 *)

\* C4: chained aggregation.  After every step of a chain that starts from one
\* encryption and adds further encryptions one after another, the accumulated
\* ciphertext decrypts to the sum of the plaintexts so far, modulo n.
C4_ChainedAggregation ==
    (KeyReady /\ acc # None /\ AddOnly(agg.ops)) =>
        Decrypt(public_key, private_key, n_squared, Get(acc)) = Return(agg.m)

\* A chain of MaxSteps ciphertexts whose sum the caller decrypted.
C4_Witness ==
    /\ DecryptedAggregate
    /\ Len(agg.ops) = MaxSteps
    /\ AddOnly(agg.ops)
    /\ agg.b = N - 1
    /\ ret.val = Some(agg.m)

-----------------------------------------------------------------------------
(* C5 *)

\* C5: plaintext validation.  On a ready key, encrypt raises exactly when its
\* plaintext m is negative or at least n; the error is an invalid-plaintext
\* error and no ciphertext is returned; and a call that entered the loop or
\* returned a ciphertext has 0 <= m <= n - 1.
C5_PlaintextValidation ==
    /\ (ret.ready /\ ret.op = "encrypt") =>
          /\ ret.raised <=> (ret.m < 0 \/ ret.m >= N)
          /\ ret.raised => (ret.err.msg \in InvalidPlaintextMessages /\ ret.val = None)
          /\ ~ret.raised => ret.val # None
    /\ epc = "draw" => (0 <= plaintext /\ plaintext <= N - 1)
    /\ KeyReady =>
          \A m \in {-1, 0, N - 1, N, N + 1} :
             EncryptCheck(public_key, m).raised <=> (m < 0 \/ m >= N)

\* encrypt(n) raised.
C5_Witness ==
    /\ ret.ready
    /\ ret.op = "encrypt"
    /\ ret.m = N
    /\ ret.raised
    /\ ret.val = None

-----------------------------------------------------------------------------
(* C6 *)

\* C6: key invariants.  In every key pair key generation stores,
\* gcd(lambda, n) = 1, (lambda * mu) mod n = 1 and 0 <= mu < n.
C6_KeyInvariants ==
    private_key # None =>
        LET sk == Get(private_key)
        IN  /\ Gcd(sk.lambda, sk.n) = 1
            /\ MulMod(sk.lambda, sk.mu, sk.n) = 1
            /\ 0 <= sk.mu
            /\ sk.mu < sk.n

\* A key pair was generated.
C6_Witness == kpc = "ready" /\ KeyReady /\ Get(private_key).lambda > 1

-----------------------------------------------------------------------------
(* C7 *)

\* C7: key-size validation.  No object is constructed, through either entry
\* point, for a bit length below 512 or an odd bit length.
C7_KeySizeValidation ==
    Constructed => (Get(bit_length) >= MinBitLength /\ Get(bit_length) % 2 = 0)

-----------------------------------------------------------------------------
(* C8 *)

\* C8: on a ready key homomorphic_multiply_constant raises exactly when its
\* constant is negative, with an invalid-constant error and no ciphertext
\* returned, and returns a ciphertext for every constant k >= 0; a call that
\* raises leaves the key pair as it was.
C8_ConstantValidation ==
    /\ [](  (ret.ready /\ ret.op = "homomorphic_multiply_constant") =>
              /\ ret.raised <=> ret.m < 0
              /\ ret.raised =>
                    (ret.err.msg \in InvalidConstantMessages /\ ret.val = None)
              /\ ~ret.raised => ret.val # None )
    /\ [][ (ret'.op = "homomorphic_multiply_constant" /\ ret'.raised /\ ret' # ret)
              => UNCHANGED keyVars ]_vars

\* A negative constant was refused on a ciphertext the caller holds.
C8_Witness ==
    /\ ret.ready
    /\ ret.op = "homomorphic_multiply_constant"
    /\ ret.src = "acc"
    /\ ret.m = -1
    /\ ret.raised

-----------------------------------------------------------------------------
(* C9 *)

-----------------------------------------------------------------------------
(* C10 *)

\* C10: key permanence.  Once the key pair is ready, no step changes
\* public_key, private_key, n_squared or bit_length.
C10_KeyPermanence == [][ KeyReady => UNCHANGED keyVars ]_vars

\* A ready key on which a call has failed and the caller holds an aggregate.
C10_Witness ==
    /\ KeyReady
    /\ acc # None
    /\ Len(agg.ops) = MaxSteps
    /\ ret.ready
    /\ ret.raised

-----------------------------------------------------------------------------
(* C11 *)

\* The result the call c returns when it runs alone on the key pair with the
\* draw c.r.
Alone(c) ==
    CASE c.op = "encrypt" ->
            IF EncryptCheck(public_key, c.args[1]).raised
            THEN EncryptCheck(public_key, c.args[1])
            ELSE Return(EncryptValue(public_key, n_squared, c.args[1], c.r))
      [] c.op = "decrypt" ->
            Decrypt(public_key, private_key, n_squared, c.args[1])
      [] c.op = "homomorphic_add" ->
            HomomorphicAdd(public_key, n_squared, c.args[1], c.args[2])
      [] c.op = "homomorphic_multiply_constant" ->
            HomomorphicMultiplyConstant(public_key, n_squared, c.args[1], c.args[2])

\* C11: concurrent use of a shared key.  Under every interleaving of the steps
\* of encrypt, decrypt, homomorphic_add and homomorphic_multiply_constant calls
\* made by the threads on one ready key pair, every call that has ended
\* returned what it returns when run alone with the same draw, and no step of
\* a call changes the key pair.
C11_SharedKey ==
    /\ [](\A t \in Threads : calls[t].pc = "done" => calls[t].out = Alone(calls[t]))
    /\ [][ calls' # calls => UNCHANGED keyVars ]_vars

\* One thread's encrypt has returned while the other's, of another plaintext
\* and with another draw, is between its powers and its product.
C11_Witness ==
    /\ calls["t1"].pc = "done"
    /\ calls["t1"].op = "encrypt"
    /\ ~calls["t1"].out.raised
    /\ calls["t2"].pc = "product"
    /\ calls["t2"].op = "encrypt"
    /\ calls["t2"].args # calls["t1"].args
    /\ calls["t2"].r # calls["t1"].r

-----------------------------------------------------------------------------
(* C12 *)

\* C12: get_public_key returns a dictionary with exactly the entries n and g
\* of the public key, and it is a copy: after the caller has overwritten an
\* entry of it, self.public_key still holds n and g = n + 1 for the n of the
\* private key, n_squared is still n * n, and encrypt and decrypt on the
\* object's fields still round-trip.
C12_PublicView ==
    (ret.op = "get_public_key" /\ ~ret.raised) =>
        LET d == Get(ret.val)
            n == Get(private_key).n
        IN  /\ DOMAIN d.items = {"n", "g"}
            /\ \/ d.items = Get(public_key)
               \/ d.items = [Get(public_key) EXCEPT !.n = Overwritten]
            /\ Get(public_key) = [n |-> n, g |-> n + 1]
            /\ Get(n_squared) = n * n
            /\ EncryptValue(public_key, n_squared, 1, 1) = n + 1
            /\ Decrypt(public_key, private_key, n_squared,
                       EncryptValue(public_key, n_squared, n - 1, 2)) = Return(n - 1)

\* The caller has overwritten n in the dictionary it was given while it holds
\* an aggregate built under the key.
C12_Witness ==
    /\ ret.op = "get_public_key"
    /\ ~ret.raised
    /\ Get(ret.val).items.n = Overwritten
    /\ Get(ret.val).items.g = N + 1
    /\ acc # None

-----------------------------------------------------------------------------
(* C13 *)

NoModularInverseMessages ==
    {"Modular inverse dari {a} mod {m} tidak ada (gcd = {gcd})"}

\* C13: _modular_inverse(a, m) for m > 0 and any integer a.  When
\* gcd(a, m) = 1 it returns x with 0 <= x < m and (a * x) mod m = 1 mod m;
\* when gcd(a, m) # 1 it raises the no-modular-inverse error.
C13_ModularInverse ==
    fn.name = "_modular_inverse" =>
        IF Gcd(fn.a, fn.m) = 1
        THEN /\ ~fn.out.raised
             /\ 0 <= fn.out.val
             /\ fn.out.val < fn.m
             /\ (fn.a * fn.out.val) % fn.m = 1 % fn.m
        ELSE /\ fn.out.raised
             /\ fn.out.err.msg \in NoModularInverseMessages

\* A negative a with an inverse above 1 was inverted: -4 * 5 = 1 mod 21.
C13_Witness ==
    /\ fn.name = "_modular_inverse"
    /\ fn.a = -4
    /\ fn.m = MaxArg
    /\ ~fn.out.raised
    /\ fn.out.val > 1

-----------------------------------------------------------------------------
(* C14 *)

\* C14: _extended_gcd(a, b) for a, b >= 0 returns <<g, x, y>> with
\* g = gcd(a, b) and a * x + b * y = g, the cases a = 0, b = 0 and a = b = 0
\* included.
C14_ExtendedGcd ==
    fn.name = "_extended_gcd" =>
        /\ fn.out[1] = Gcd(fn.a, fn.b)
        /\ fn.a * fn.out[2] + fn.b * fn.out[3] = fn.out[1]
        /\ (fn.a = 0 /\ fn.b = 0) => fn.out[1] = 0

\* _extended_gcd(MaxArg, 0) returned the gcd MaxArg.
C14_Witness ==
    /\ fn.name = "_extended_gcd"
    /\ fn.a = MaxArg
    /\ fn.b = 0
    /\ fn.out[1] = MaxArg

-----------------------------------------------------------------------------
(* C15 *)

\* C15: Miller-Rabin edge cases.  _miller_rabin_test(n, rounds) returns False
\* for every n < 2, True for n = 2 and n = 3 and False for every even n > 2,
\* whatever rounds is and with no witness drawn: the call ends before its
\* loop, which only an odd n > 3 enters.
C15_EdgeCases ==
    fn.name = "_miller_rabin_test" =>
        /\ fn.pc = "round" => (fn.n > 3 /\ fn.n % 2 = 1)
        /\ (fn.n < 2 \/ fn.n \in {2, 3} \/ fn.n % 2 = 0) =>
              /\ fn.pc = "done"
              /\ fn.i = 0
              /\ fn.out = (fn.n \in {2, 3})

\* _miller_rabin_test(3, MaxRounds) returned True with no round run.
C15_Witness ==
    /\ fn.name = "_miller_rabin_test"
    /\ fn.n = 3
    /\ fn.rounds = MaxRounds
    /\ fn.pc = "done"
    /\ fn.i = 0
    /\ fn.out = TRUE

-----------------------------------------------------------------------------
(* C16 *)

IsPrime(n) == n >= 2 /\ \A k \in 2 .. (n - 1) : n % k # 0

\* C16: no false negatives.  For every prime n and every number of rounds,
\* _miller_rabin_test(n, rounds) returns True whatever witnesses are drawn
\* from 2 .. n - 2: no round fails, for any witness that could be drawn, and the
\* call ends with True.
C16_NoFalseNegatives ==
    (fn.name = "_miller_rabin_test" /\ IsPrime(fn.n)) =>
        /\ fn.pc = "done" => fn.out = TRUE
        /\ fn.pc = "round" => \A a \in Witnesses(fn.n) : WitnessPasses(fn.n, a)

\* The largest prime tested passed MaxRounds rounds.
C16_Witness ==
    /\ fn.name = "_miller_rabin_test"
    /\ IsPrime(fn.n)
    /\ fn.n > MaxTested - 4
    /\ fn.pc = "done"
    /\ fn.rounds = MaxRounds
    /\ fn.i = MaxRounds
    /\ fn.out = TRUE

-----------------------------------------------------------------------------
(* C17 *)

-----------------------------------------------------------------------------
(* C18 *)

\* C18: decrypt never rejects a malformed ciphertext.  On a ready key, decrypt
\* of any integer c raises nothing and returns an integer in 0 .. n - 1: for
\* every stray integer a caller passed, and for the key in force for every c
\* from -2 to n^2 + 2, which holds the integers outside 0 .. n^2 - 1, those
\* that share a factor with n and every ciphertext of any other key of the
\* same size.
C18_DecryptAcceptsAnything ==
    /\ (ret.ready /\ ret.op = "decrypt") =>
          /\ ~ret.raised
          /\ ret.val # None
          /\ 0 <= Get(ret.val)
          /\ Get(ret.val) < N
    /\ KeyFresh =>
          \A c \in (-2) .. (Get(n_squared) + 2) :
             LET out == Decrypt(public_key, private_key, n_squared, c)
             IN  /\ ~out.raised
                 /\ 0 <= Get(out.val)
                 /\ Get(out.val) < N

\* decrypt(n^2 + 2) returned a value on a ready key.
C18_Witness ==
    /\ ret.ready
    /\ ret.op = "decrypt"
    /\ ret.src = "stray"
    /\ ret.m = Get(n_squared) + 2
    /\ ~ret.raised
    /\ Get(ret.val) \in 0 .. (N - 1)

-----------------------------------------------------------------------------
(* C19 *)

\* The values an error carries in its message.
Carried(err) == {err.args[i] : i \in DOMAIN err.args}

\* _generate_keypair calls _modular_inverse(lambda_n, n) with
\* lambda_n = lcm(p - 1, q - 1) and n = p * q (lines 243-256): the pairs
\* <<p, q>> of distinct odd numbers above 1 for which a call
\* _modular_inverse(a, m) is that call.
KeyFactors(a, m) ==
    {pq \in (3 .. m) \X (3 .. m) :
        /\ pq[1] % 2 = 1
        /\ pq[2] % 2 = 1
        /\ pq[1] # pq[2]
        /\ pq[1] * pq[2] = m
        /\ ComputeLcm(pq[1] - 1, pq[2] - 1) = a}

\* C19: no error contains private key material.  The error _modular_inverse
\* raises when lambda has no inverse modulo n carries in its message neither
\* lambda nor p nor q.
C19_NoKeyMaterial ==
    (fn.name = "_modular_inverse" /\ fn.out.raised) =>
        \A pq \in KeyFactors(fn.a, fn.m) :
            Carried(fn.out.err) \cap {fn.a, pq[1], pq[2]} = {}

-----------------------------------------------------------------------------
(* C20 *)

\* C20: prime generation is bounded.  Every call of _generate_prime ends: it
\* returns a prime, or it stops with a prime-generation-exhausted error once
\* the iteration cap is passed.
C20_PrimeGenerationEnds ==
    (fn.name = "_generate_prime") ~> (fn.pc \in {"done", "exhausted"})

-----------------------------------------------------------------------------
(* C21 *)

\* The least common multiple of a and b, for a, b >= 1.
Lcm(a, b) ==
    CHOOSE k \in 1 .. (a * b) :
        /\ k % a = 0
        /\ k % b = 0
        /\ \A j \in 1 .. (k - 1) : j % a # 0 \/ j % b # 0

\* The values of w bits.
OfBits(w) == Pow2(w - 1) .. (Pow2(w) - 1)

-----------------------------------------------------------------------------
(* C22 *)

\* The model's counterpart of a requested bit length bl, as the width of a
\* modulus: twice the width PrimeBits gives to half of an even bl.
ModulusBits(bl) == bl - MinBitLength + 2 * ScaledHalfWidth

\* C22: modulus size.  For a key pair generated with an accepted bit length,
\* both primes have exactly bitLength / 2 bits, n has bitLength or
\* bitLength - 1 bits, and get_key_info reports status "Ready", n_bit_length
\* equal to the bit length of n and bit_length equal to the requested one.
C22_ModulusSize ==
    /\ (kpc = "have_pq" /\ p # q) =>
          /\ 2 * BitLength(p) = ModulusBits(Get(bit_length))
          /\ 2 * BitLength(q) = ModulusBits(Get(bit_length))
    /\ KeyReady =>
          BitLength(N) \in {ModulusBits(Get(bit_length)),
                            ModulusBits(Get(bit_length)) - 1}
    /\ (ret.op = "get_key_info" /\ ret.ready) =>
          /\ ~ret.raised
          /\ Get(ret.val).status = "Ready"
          /\ Get(ret.val).n_bit_length = BitLength(N)
          /\ Get(ret.val).bit_length = Get(bit_length)

-----------------------------------------------------------------------------
(* C23 *)

\* The exponent r of n - 1 = d * 2^r with d odd.
TwoPart(n) ==
    CHOOSE r \in 0 .. n : (n - 1) % Pow2(r) = 0 /\ ((n - 1) \div Pow2(r)) % 2 = 1

\* The odd d of n - 1 = d * 2^r.
OddPart(n) == (n - 1) \div Pow2(TwoPart(n))

\* a shows n composite: a^d is neither 1 nor n - 1, and no a^(d * 2^j) with
\* 1 <= j <= r - 1 is n - 1.
ShowsComposite(n, a) ==
    /\ ModPow(a, OddPart(n), n) \notin {1, n - 1}
    /\ \A j \in 1 .. (TwoPart(n) - 1) : ModPow(a, OddPart(n) * Pow2(j), n) # n - 1

\* C23: Miller-Rabin compositeness detection.  In the loop of
\* _miller_rabin_test (n odd, n > 3), a round whose witness shows n composite
\* returns False at that round, with no later witness drawn; a round whose
\* witness does not goes on to the next round, or returns True when it was the
\* last; so the loop is only ever continued, and True only ever returned,
\* after witnesses that all passed.
C23_CompositenessDetection ==
    /\ [][ (fn.name = "_miller_rabin_test" /\ fn.pc = "round" /\ fn' # fn) =>
              /\ fn.n > 3
              /\ fn.n % 2 = 1
              /\ fn'.n = fn.n
              /\ fn'.a \in 2 .. (fn.n - 2)
              /\ IF ShowsComposite(fn.n, fn'.a)
                 THEN fn'.pc = "done" /\ fn'.out = FALSE /\ fn'.i = fn.i
                 ELSE /\ fn'.i = fn.i + 1
                      /\ IF fn'.i = fn.rounds
                         THEN fn'.pc = "done" /\ fn'.out = TRUE
                         ELSE fn'.pc = "round" ]_vars
    /\ []( (fn.name = "_miller_rabin_test" /\ fn.a # 0) =>
              /\ fn.pc = "round" => (~ShowsComposite(fn.n, fn.a) /\ fn.i < fn.rounds)
              /\ fn.pc = "done" => (fn.out <=> ~ShowsComposite(fn.n, fn.a))
              /\ (fn.pc = "done" /\ fn.out) => fn.i = fn.rounds )

\* The test returned False at a round that was not the last, after an earlier
\* witness had passed.
C23_Witness ==
    /\ fn.name = "_miller_rabin_test"
    /\ fn.pc = "done"
    /\ fn.out = FALSE
    /\ fn.a # 0
    /\ ShowsComposite(fn.n, fn.a)
    /\ fn.i >= 1
    /\ fn.i + 1 < fn.rounds

-----------------------------------------------------------------------------
(* C24 *)

\* The witnesses of the sampling range that pass a round for n.
Liars(n) == {a \in Witnesses(n) : WitnessPasses(n, a)}

\* k to the power e.
RECURSIVE Power(_, _)
Power(k, e) == IF e = 0 THEN 1 ELSE k * Power(k, e - 1)

\* n is odd, above 3 and has a proper divisor.
OddComposite(n) == n > 3 /\ n % 2 = 1 /\ \E k \in 2 .. (n - 1) : n % k = 0

\* C24: Miller-Rabin error bound.  For every odd composite n the test is
\* called on, at most a quarter of the witnesses of 2 .. n - 2 pass a round,
\* and of the sequences of `rounds` witnesses at most (1/4)^rounds are made of
\* passing witnesses only; the test returns True for such an n only at the end
\* of such a sequence.
C24_ErrorBound ==
    (fn.name = "_miller_rabin_test" /\ OddComposite(fn.n)) =>
        /\ 4 * Cardinality(Liars(fn.n)) <= Cardinality(Witnesses(fn.n))
        /\ Power(4, fn.rounds) * Power(Cardinality(Liars(fn.n)), fn.rounds)
              <= Power(Cardinality(Witnesses(fn.n)), fn.rounds)
        /\ (fn.pc = "done" /\ fn.out /\ fn.rounds > 0) =>
              (fn.i = fn.rounds /\ fn.a \in Liars(fn.n))
        /\ (fn.pc = "round" /\ fn.a # 0) => fn.a \in Liars(fn.n)

\* The test wrongly returned True for an odd composite after all of its
\* rounds, more than one.
C24_Witness ==
    /\ fn.name = "_miller_rabin_test"
    /\ OddComposite(fn.n)
    /\ fn.pc = "done"
    /\ fn.out
    /\ fn.rounds > 1
    /\ fn.i = fn.rounds

-----------------------------------------------------------------------------
(* C25 *)

\* C25: _extended_gcd is iterative.  Whatever its arguments, a call of
\* _extended_gcd uses one frame: the depth of nested calls does not grow with
\* the number of division steps.
C25_IterativeExtendedGcd ==
    fn.name = "_extended_gcd" => fn.depth = 1

-----------------------------------------------------------------------------
(* C26 *)

\* C26: atomic key generation.  Where _generate_keypair stops, by returning
\* or by raising, public_key, private_key and n_squared are all unset or are
\* all set to the values of one key pair; when it raises, the error is a
\* key-generation error, not the bare error of the modular-inverse helper.
C26_AtomicKeyGeneration ==
    (fn.name = "_generate_keypair" /\ fn.pc = "done") =>
        /\ \/ /\ fn.out.public_key = None
              /\ fn.out.private_key = None
              /\ fn.out.n_squared = None
           \/ /\ fn.out.public_key # None
              /\ fn.out.private_key # None
              /\ fn.out.n_squared # None
              /\ Get(fn.out.public_key).n = fn.p * fn.q
              /\ Get(fn.out.private_key).n = fn.p * fn.q
              /\ Get(fn.out.n_squared) = fn.p * fn.q * fn.p * fn.q
        /\ fn.out.raised => fn.out.err.msg \notin NoModularInverseMessages

-----------------------------------------------------------------------------
(* C27 *)

\* c is in the ciphertext space of the key: 0 <= c < n^2 and gcd(c, n) = 1.
InCipherSpace(c) == 0 <= c /\ c < Get(n_squared) /\ Gcd(c, N) = 1

\* C27: the ciphertext space is closed.  Every value encrypt returns is in
\* the ciphertext space, and so is every value homomorphic_add and
\* homomorphic_multiply_constant (k >= 0) return for such values, after any
\* sequence of these operations.
C27_CiphertextSpaceClosed ==
    KeyReady =>
        /\ (Encrypted /\ ret.ready) => InCipherSpace(Get(ret.val))
        /\ acc # None => InCipherSpace(Get(acc))
        /\ ( /\ ret.op \in {"homomorphic_add", "homomorphic_multiply_constant"}
             /\ ret.src = "acc"
             /\ ~ret.raised ) => InCipherSpace(Get(ret.val))

\* The aggregate was built by an addition and a scaling and is a ciphertext
\* other than 1.
C27_Witness ==
    /\ KeyReady
    /\ acc # None
    /\ Len(agg.ops) = MaxSteps
    /\ \E i, j \in 2 .. Len(agg.ops) : agg.ops[i] = "add" /\ agg.ops[j] = "scale"
    /\ Get(acc) > 1
    /\ InCipherSpace(Get(acc))

-----------------------------------------------------------------------------
(* C28 *)

\* The ciphertexts of the key: the image of (m, r) -> g^m * r^n mod n^2 over
\* m in 0 .. n - 1 and r in 1 .. n - 1 coprime to n.
Ciphertexts ==
    {EncryptValue(public_key, n_squared, m, r) : m \in 0 .. (N - 1), r \in Units(N)}

\* The caller holds the ciphertext of one encrypt call and has just received
\* that of another.
TwoEncryptions ==
    /\ KeyReady
    /\ acc # None
    /\ agg.ops = <<"enc">>
    /\ Encrypted
    /\ ret.ready

\* C28: encryption is injective in (m, r).  For a ready key the map
\* (m, r) -> g^m * r^n mod n^2 takes as many values as it has arguments; two
\* encrypt calls that return the same ciphertext had the same m, and two calls
\* on the same m that drew different r return different ciphertexts.
C28_Injective ==
    /\ KeyFresh => Cardinality(Ciphertexts) = N * Cardinality(Units(N))
    /\ TwoEncryptions =>
          /\ Get(acc) = Get(ret.val) => agg.m = ret.m
          /\ \A r1 \in BlindingDraws(N) :
                ( /\ Gcd(r1, N) = 1
                  /\ r1 # ret.r
                  /\ agg.m = ret.m
                  /\ Get(acc) = EncryptValue(public_key, n_squared, agg.m, r1) )
                => Get(acc) # Get(ret.val)

\* Two encrypt calls on the same plaintext returned different ciphertexts.
C28_Witness ==
    /\ TwoEncryptions
    /\ agg.m = ret.m
    /\ ret.r > 1
    /\ Get(acc) # Get(ret.val)

-----------------------------------------------------------------------------
(* C29 *)

\* u = c^lambda mod n^2, as decrypt computes it.
CLambda(c) == ModPow(c, Get(private_key).lambda, Get(n_squared))

\* The division of _L_function loses nothing on u.
ExactL(u) == u % N = 1 /\ LFunction(u, N) * N + 1 = u

\* C29: L-function exactness.  For every ciphertext c encrypt returned, and
\* every c obtained from such ciphertexts by homomorphic_add and
\* homomorphic_multiply_constant, u = c^lambda mod n^2 has u mod n = 1, so
\* (u - 1) // n is exact; so it is for every ciphertext of the key.
C29_ExactLFunction ==
    KeyReady =>
        /\ (Encrypted /\ ret.ready) => ExactL(CLambda(Get(ret.val)))
        /\ acc # None => ExactL(CLambda(Get(acc)))
        /\ ( /\ ret.op \in {"homomorphic_add", "homomorphic_multiply_constant"}
             /\ ret.src = "acc"
             /\ ~ret.raised ) => ExactL(CLambda(Get(ret.val)))
        /\ KeyFresh => \A c \in Ciphertexts : ExactL(CLambda(c))

\* decrypt was called on an aggregate built by an addition and a scaling, and
\* the u it computed is not 1.
C29_Witness ==
    /\ KeyReady
    /\ DecryptedAggregate
    /\ \E i, j \in 2 .. Len(agg.ops) : agg.ops[i] = "add" /\ agg.ops[j] = "scale"
    /\ CLambda(Get(acc)) > 1
    /\ ExactL(CLambda(Get(acc)))

-----------------------------------------------------------------------------
(* C30 *)

\* C30: blinding-factor sampling.  The r encrypt builds its ciphertext with
\* satisfies 1 <= r <= n - 1 and gcd(r, n) = 1; a draw that shares a factor
\* with n is never used: the loop goes round again; and under fair randomness
\* the loop ends, so that encrypt on a valid plaintext returns.
C30_BlindingFactor ==
    /\ []( (Encrypted /\ ret.ready) =>
              /\ ret.r \in 1 .. (N - 1)
              /\ Gcd(ret.r, N) = 1
              /\ Get(ret.val) = EncryptValue(public_key, n_squared, ret.m, ret.r) )
    /\ []( (epc = "draw" /\ ret.r # 0) =>
              (ret.r \in 1 .. (N - 1) /\ Gcd(ret.r, N) # 1 /\ ret.val = None) )
    /\ (epc = "draw") ~> (epc = "idle" /\ Encrypted)

\* encrypt discarded a draw that shares a factor with n and is still in its
\* loop.
C30_Witness ==
    /\ KeyReady
    /\ epc = "draw"
    /\ ret.r > 1
    /\ Gcd(ret.r, N) > 1

====
